---- MODULE Spec2Model ----
(***************************************************************************)
(* pybrasil-rs benchmark harness: the command-line surface (main.py), the  *)
(* Benchmark Runner, Measurement Wrapper and Result Store (benchmarks.py)  *)
(* and the Environment Snapshotter (utils.py), as a state machine over the *)
(* working directory (data/, results/) and one harness process at a time.  *)
(***************************************************************************)
EXTENDS Integers, Sequences, FiniteSets, TLC

\* ------------------------------------------------------------------ bounds
\* Benchmark invocations (CLI `benchmark` or a direct run_benchmarks call)
\* in one behaviour.
MaxInvocations == 2
\* Largest repeat count `runs` a caller passes to run_benchmarks.
MaxRuns == 2
\* Query Adapter invocations that raise, in one behaviour.
MaxFaults == 1

\* --------------------------------------------------------- program constants
\* benchmarks.py:52
AllScenarios == <<"small", "medium", "large", "xlarge">>
\* benchmarks.py:53
AllEngines == <<"pandas", "pandas-pyarrow", "polars">>
\* main.py:56
valid_scenarios == {"all", "small", "medium", "large", "xlarge"}
\* main.py:57
valid_engines == {"all", "pandas", "pandas-pyarrow", "polars"}
\* main.py:23
valid_sizes == {"all", "small", "medium", "large", "xlarge"}

\* ------------------------------------------------------------ input domains
\* Selector values a caller passes: the default, one valid name, one invalid.
ScenarioArgs == {"all", "small", "tiny"}
EngineArgs == {"all", "polars", "made-up"}
SizeArgs == {"small", "huge"}
\* run_label values a direct caller passes: a label made of digits. (The CLI
\* never passes one, so its runs carry the default, "".)
Labels == {"007"}
\* Every name a results/<engine>.csv can carry here.
TableNames == {"pandas", "pandas-pyarrow", "polars", "made-up"}
\* datetime.now().isoformat() of the n-th snapshot: distinct non-numeric texts.
Timestamps == <<"T01", "T02", "T03", "T04", "T05", "T06",
                "T07", "T08", "T09", "T10", "T11", "T12">>

Range(s) == {s[i] : i \in 1..Len(s)}

VARIABLES
    dataDir,            \* data/ exists
    factFiles,          \* scenarios whose fact_content_performance_<s>.parquet exists
    dimFiles,           \* scenarios whose dim_content_metadata_<s>.parquet exists
    resultsDir,         \* results/ exists
    tables,             \* results/<engine>.csv, per engine name
    tracing,            \* tracemalloc is tracing in the harness process
    clock,              \* snapshots taken so far (the wall clock's position)
    pc,                 \* "idle" | "iter" | "pairs" | "done"
    call,               \* the running invocation: via, scenario, engine, run_label, runs
    scenarios,          \* run_benchmarks' local list
    engines,            \* run_benchmarks' local list
    run_num,            \* run_benchmarks' loop variable
    idx,                \* position in the scenario x engine nest, 1-based
    results_by_engine,  \* the iteration's working sets
    system_info,        \* the iteration's snapshot
    outcome,            \* "none" | "ok" | "exit1" | "raised"
    error,              \* the exception that left run_benchmarks, or "none"
    step,               \* the operation that produced this state
    nInv,               \* invocations so far
    faults,             \* adapter faults so far
    base,               \* tables when the invocation entered run_benchmarks
    produced,           \* every BenchmarkResult of the invocation, per engine, with its iteration
    snapLog,            \* the snapshots of the invocation, in order
    saved               \* _save_results calls of the invocation that returned

vars == <<dataDir, factFiles, dimFiles, resultsDir, tables, tracing, clock, pc,
          call, scenarios, engines, run_num, idx, results_by_engine,
          system_info, outcome, error, step, nInv, faults, base, produced,
          snapLog, saved>>

fsVars == <<dataDir, factFiles, dimFiles, resultsDir, tables>>
runVars == <<call, scenarios, engines, run_num, idx, results_by_engine,
             system_info, base, produced, snapLog, saved>>

\* ------------------------------------------------------- the persisted table
NoFile == [exists |-> FALSE, header |-> FALSE, rows |-> <<>>]
NoCall == [via |-> "none", scenario |-> "", engine |-> "", run_label |-> "", runs |-> 0]
NoInfo == [id |-> 0, timestamp |-> ""]

\* Texts pandas.read_csv parses as integers, and as numbers.
IntTexts == {"007", "7"}
NumTexts == {"007", "7", "7.0"}
\* The number a numeric text denotes.
ParseNum(t) == CASE t = "007" -> 7 [] t = "7" -> 7 [] t = "7.0" -> 7 [] OTHER -> 0
\* str(int) and repr(float) of such a number, as DataFrame.to_csv writes them.
FormatInt(n) == CASE n = 7 -> "7" [] OTHER -> "0"
FormatFloat(n) == CASE n = 7 -> "7.0" [] OTHER -> "0.0"

\* read_csv's dtype for a column of cell texts: all integers -> int64;
\* numbers and empty cells (NaN) -> float64; anything else -> object.
InferDtype(cells) ==
    IF cells # {} /\ cells \subseteq IntTexts THEN "int64"
    ELSE IF cells \subseteq (NumTexts \cup {""}) THEN "float64"
    ELSE "object"

\* A cell read by read_csv under `dtype` and written back by to_csv.
RoundTripCell(dtype, t) ==
    CASE dtype = "int64" -> FormatInt(ParseNum(t))
      [] dtype = "float64" -> IF t = "" THEN "" ELSE FormatFloat(ParseNum(t))
      [] OTHER -> t

Column(rows, c) == {rows[i][c] : i \in 1..Len(rows)}

\* pd.read_csv(output_path) followed by to_csv of the same rows.
RoundTrip(rows) ==
    [i \in 1..Len(rows) |->
        [c \in DOMAIN rows[i] |-> RoundTripCell(InferDtype(Column(rows, c)), rows[i][c])]]

\* BenchmarkResult.to_dict, the columns this model carries.
to_dict(r) ==
    [timestamp |-> r.system_info.timestamp, run_label |-> r.run_label,
     engine |-> r.engine, scenario |-> r.scenario]

ToRows(results) == [i \in 1..Len(results) |-> to_dict(results[i])]

\* to_csv of the new rows alone, over whatever the file held.
SaveOneOverwrite(tbl, results) ==
    [table |-> [exists |-> TRUE, header |-> Len(results) > 0, rows |-> ToRows(results)],
     raised |-> FALSE]

\* The body of _save_results' loop for one engine: the file after it, and
\* whether read_csv raised (EmptyDataError on a file without a header line).
SaveOne(tbl, results) ==
    IF tbl.exists
    THEN IF ~tbl.header
         THEN [table |-> tbl, raised |-> TRUE]
         ELSE [table |-> [tbl EXCEPT !.rows = RoundTrip(tbl.rows) \o ToRows(results)],
               raised |-> FALSE]
    ELSE [table |-> [exists |-> TRUE, header |-> Len(results) > 0, rows |-> ToRows(results)],
          raised |-> FALSE]

\* _save_results over engs[i..], in dict order, stopping at the first raise.
RECURSIVE SaveFrom(_, _, _, _)
SaveFrom(tbls, engs, rbe, i) ==
    IF i > Len(engs) THEN [tables |-> tbls, raised |-> FALSE]
    ELSE LET one == SaveOne(tbls[engs[i]], rbe[engs[i]])
         IN IF one.raised THEN [tables |-> tbls, raised |-> TRUE]
            ELSE SaveFrom([tbls EXCEPT ![engs[i]] = one.table], engs, rbe, i + 1)

\* ----------------------------------------------------------------- helpers
get_system_info(n) == [id |-> n, timestamp |-> Timestamps[n]]

\* A result that takes its own snapshot instead of the iteration's.
BenchmarkResultFresh(eng, scn, info, label) ==
    [engine |-> eng, scenario |-> scn,
     system_info |-> [id |-> info.id + 1, timestamp |-> Timestamps[info.id + 1]],
     run_label |-> label]

BenchmarkResult(eng, scn, info, label) ==
    [engine |-> eng, scenario |-> scn, system_info |-> info, run_label |-> label]

\* _run_single_benchmark's precondition.
FilesExist(scn) == scn \in factFiles /\ scn \in dimFiles

KnownEngine(eng) == eng \in Range(AllEngines)

\* An except clause that catches every exception.
CaughtAny(exc) == TRUE

\* run_benchmarks' except clause.
Caught(exc) == exc = "FileNotFoundError"

ValidScenarioArg(s) == s \in valid_scenarios
\* The engine selector is not validated.
AnyEngineArg(e) == TRUE
ValidEngineArg(e) == e \in valid_engines

SizeScenarios(size) == IF size = "all" THEN Range(AllScenarios) ELSE {size}

NPairs == Len(scenarios) * Len(engines)
CurScn == scenarios[((idx - 1) \div Len(engines)) + 1]
CurEng == engines[((idx - 1) % Len(engines)) + 1]

\* How a failure leaves the invocation: typer.Exit(1) from the CLI's except
\* clause, or the exception itself for a direct caller.
Failure(via) == IF via = "cli" THEN "exit1" ELSE "raised"

Init ==
    /\ dataDir = FALSE /\ factFiles = {} /\ dimFiles = {}
    /\ resultsDir = FALSE
    /\ tables = [e \in TableNames |-> NoFile]
    /\ tracing = FALSE /\ clock = 0
    /\ pc = "idle" /\ call = NoCall
    /\ scenarios = <<>> /\ engines = <<>>
    /\ run_num = 0 /\ idx = 0
    /\ results_by_engine = <<>>
    /\ system_info = NoInfo
    /\ outcome = "none" /\ error = "none" /\ step = "idle"
    /\ nInv = 0 /\ faults = 0
    /\ base = <<>> /\ produced = <<>> /\ snapLog = <<>> /\ saved = 0

\* ------------------------------------------------------------ CLI: generate
\* `written` parquet files are created before generation stops: 2 is success,
\* 1 is an exception while the dimension table is written (reported, exit 1).
\* An invalid size exits before data/ is touched. The command's own exit
\* status is not kept: `outcome` is the benchmark invocation's.
GenerateCmd(size, written) ==
    /\ pc = "idle"
    /\ IF size \notin valid_sizes
       THEN UNCHANGED fsVars
       ELSE /\ dataDir' = TRUE
            /\ factFiles' = IF written >= 1 THEN factFiles \cup SizeScenarios(size) ELSE factFiles
            /\ dimFiles' = IF written >= 2 THEN dimFiles \cup SizeScenarios(size) ELSE dimFiles
            /\ UNCHANGED <<resultsDir, tables>>
    /\ step' = "idle"
    /\ UNCHANGED <<tracing, clock, pc, nInv, faults, outcome, error>>
    /\ UNCHANGED runVars

\* ------------------------------------------------------------- CLI: cleanup
\* Removes data/ and results/ when they exist (with neither, it changes nothing).
CleanupCmd ==
    /\ pc = "idle"
    /\ dataDir \/ resultsDir
    /\ dataDir' = FALSE /\ factFiles' = {} /\ dimFiles' = {}
    /\ resultsDir' = FALSE /\ tables' = [e \in TableNames |-> NoFile]
    /\ step' = "idle"
    /\ UNCHANGED <<tracing, clock, pc, nInv, faults, outcome, error>>
    /\ UNCHANGED runVars

\* ---------------------------------------------------------- run_benchmarks
\* Lines 50-58: create results/, resolve the selectors.
Enter(via, scenario, engine, label, runs) ==
    /\ resultsDir' = TRUE
    /\ call' = [via |-> via, scenario |-> scenario, engine |-> engine,
                run_label |-> label, runs |-> runs]
    /\ scenarios' = IF scenario # "all" THEN <<scenario>> ELSE AllScenarios
    /\ engines' = IF engine # "all" THEN <<engine>> ELSE AllEngines
    /\ run_num' = 1 /\ idx' = 0
    /\ results_by_engine' = <<>> /\ system_info' = NoInfo
    /\ base' = tables
    /\ produced' = [e \in (IF engine # "all" THEN {engine} ELSE Range(AllEngines)) |-> <<>>]
    /\ snapLog' = <<>> /\ saved' = 0
    /\ pc' = "iter" /\ outcome' = "none" /\ error' = "none"
    /\ UNCHANGED <<dataDir, factFiles, dimFiles, tables, clock, faults>>

\* CLI: benchmark (main.py:41-93). A fresh process: nothing is tracing.
BenchmarkCmd(scenario, engine) ==
    /\ pc = "idle" /\ nInv < MaxInvocations
    /\ nInv' = nInv + 1
    /\ tracing' = FALSE
    /\ IF ValidScenarioArg(scenario) /\ ValidEngineArg(engine) /\ dataDir
       THEN /\ Enter("cli", scenario, engine, "", 1)
            /\ step' = "enter"
       ELSE /\ outcome' = "exit1" /\ error' = "none" /\ step' = "reject"
            /\ pc' = "done"
            /\ call' = [NoCall EXCEPT !.via = "cli", !.scenario = scenario, !.engine = engine]
            /\ UNCHANGED <<scenarios, engines, run_num, idx, results_by_engine,
                           system_info, base, produced, snapLog, saved>>
            /\ UNCHANGED <<clock, faults>>
            /\ UNCHANGED fsVars

\* A direct call of run_benchmarks from a host process (a script, a test),
\* whose tracemalloc state outlives the call.
CallRunBenchmarks(scenario, engine, label, runs) ==
    /\ pc = "idle" /\ nInv < MaxInvocations
    /\ nInv' = nInv + 1
    /\ Enter("api", scenario, engine, label, runs)
    /\ step' = "enter"
    /\ UNCHANGED tracing

\* Lines 60-62: the next iteration starts with empty working sets and a
\* fresh snapshot.
BeginIteration ==
    /\ pc = "iter" /\ run_num <= call.runs
    /\ clock' = clock + 1
    /\ system_info' = get_system_info(clock + 1)
    /\ snapLog' = Append(snapLog, get_system_info(clock + 1))
    /\ results_by_engine' = [e \in Range(engines) |-> <<>>]
    /\ idx' = 1 /\ pc' = "pairs" /\ step' = "begin"
    /\ UNCHANGED <<tracing, call, scenarios, engines, run_num, outcome, error,
                   nInv, faults, base, produced, saved>>
    /\ UNCHANGED fsVars

\* An exception leaves run_benchmarks (and, from the CLI, the process).
Abort(exc) ==
    /\ pc' = "done" /\ outcome' = Failure(call.via) /\ error' = exc

\* The pair is skipped (lines 81-84): the loop goes on.
Skip ==
    /\ idx' = idx + 1
    /\ UNCHANGED <<pc, outcome, error, results_by_engine, produced>>

\* One (scenario, engine) pair: _run_single_benchmark under the try/except
\* of lines 78-82. `fault` is what the Query Adapter does once invoked:
\* return, raise FileNotFoundError (pd.read_parquet / scan_parquet on a file
\* removed after the check of line 97), or raise anything else.
RunPair(fault) ==
    /\ pc = "pairs" /\ idx <= NPairs
    /\ IF ~FilesExist(CurScn)
       THEN \* line 97-98: FileNotFoundError, before the engine is looked at
            /\ fault = "none"
            /\ step' = "pair_missing"
            /\ IF Caught("FileNotFoundError") THEN Skip
               ELSE Abort("FileNotFoundError")
                    /\ UNCHANGED <<idx, results_by_engine, produced>>
            /\ UNCHANGED <<tracing, faults>>
       ELSE IF ~KnownEngine(CurEng)
       THEN \* line 107
            /\ fault = "none"
            /\ step' = "pair_unknown"
            /\ IF Caught("ValueError") THEN Skip
               ELSE Abort("ValueError")
                    /\ UNCHANGED <<idx, results_by_engine, produced>>
            /\ UNCHANGED <<tracing, faults>>
       ELSE IF fault = "none"
       THEN \* _measure_execution returns: start, func(), stop
            /\ step' = "pair_ok"
            /\ tracing' = FALSE
            /\ results_by_engine' =
                  [results_by_engine EXCEPT ![CurEng] =
                      Append(@, BenchmarkResult(CurEng, CurScn, system_info, call.run_label))]
            /\ produced' =
                  [produced EXCEPT ![CurEng] =
                      Append(@, [result |-> BenchmarkResult(CurEng, CurScn, system_info,
                                                            call.run_label),
                                 run |-> run_num])]
            /\ idx' = idx + 1
            /\ UNCHANGED <<pc, outcome, error, faults>>
       ELSE \* func() raises inside _measure_execution: stop() is not reached
            /\ faults < MaxFaults
            /\ faults' = faults + 1
            /\ step' = IF fault = "FileNotFoundError" THEN "pair_fnf" ELSE "pair_exc"
            /\ tracing' = TRUE
            /\ IF Caught(fault) THEN Skip
               ELSE Abort(fault)
                    /\ UNCHANGED <<idx, results_by_engine, produced>>
    /\ UNCHANGED <<clock, call, scenarios, engines, run_num, system_info,
                   nInv, base, snapLog, saved>>
    /\ UNCHANGED fsVars

\* Line 86: the iteration's working sets go to the Result Store.
SaveResults ==
    /\ pc = "pairs" /\ idx > NPairs
    /\ LET r == SaveFrom(tables, engines, results_by_engine, 1)
       IN /\ tables' = r.tables
          /\ IF r.raised
             THEN /\ Abort("EmptyDataError")
                  /\ step' = "save_raise"
                  /\ UNCHANGED <<run_num, saved>>
             ELSE /\ run_num' = run_num + 1
                  /\ saved' = saved + 1
                  /\ pc' = "iter" /\ step' = "save"
                  /\ UNCHANGED <<outcome, error>>
    /\ UNCHANGED <<dataDir, factFiles, dimFiles, resultsDir, tracing, clock, call,
                   scenarios, engines, idx, results_by_engine, system_info,
                   nInv, faults, base, produced, snapLog>>

\* Line 88: after the last iteration, _display_results and return.
Finish ==
    /\ pc = "iter" /\ run_num > call.runs
    /\ pc' = "done" /\ outcome' = "ok" /\ step' = "finish"
    /\ UNCHANGED <<tracing, clock, call, scenarios, engines, run_num, idx,
                   results_by_engine, system_info, error, nInv, faults, base,
                   produced, snapLog, saved>>
    /\ UNCHANGED fsVars

\* The invocation is over: its locals are gone.
Return ==
    /\ pc = "done"
    /\ pc' = "idle" /\ step' = "idle"
    /\ call' = NoCall /\ scenarios' = <<>> /\ engines' = <<>>
    /\ run_num' = 0 /\ idx' = 0 /\ results_by_engine' = <<>>
    /\ system_info' = NoInfo
    /\ base' = <<>> /\ produced' = <<>> /\ snapLog' = <<>> /\ saved' = 0
    /\ tracing' = IF call.via = "cli" THEN FALSE ELSE tracing
    /\ outcome' = "none" /\ error' = "none"
    /\ UNCHANGED <<clock, nInv, faults>>
    /\ UNCHANGED fsVars

Next ==
    \/ \E size \in SizeArgs, written \in {1, 2} : GenerateCmd(size, written)
    \/ CleanupCmd
    \/ \E s \in ScenarioArgs, e \in EngineArgs : BenchmarkCmd(s, e)
    \/ \E s \in ScenarioArgs \cap valid_scenarios, e \in EngineArgs, l \in Labels, r \in 1..MaxRuns :
          CallRunBenchmarks(s, e, l, r)
    \/ BeginIteration
    \/ \E f \in {"none", "FileNotFoundError", "Exception"} : RunPair(f)
    \/ SaveResults
    \/ Finish
    \/ Return

Spec == Init /\ [][Next]_vars

\* =================================================================== claims
SaveSteps == {"save", "save_raise"}
PairSteps == {"pair_missing", "pair_unknown", "pair_ok", "pair_fnf", "pair_exc"}
Failed == outcome \in {"exit1", "raised"}
\* The scenarios of the running invocation whose two input files exist.
ValidScenarios == {s \in Range(scenarios) : FilesExist(s)}
\* The entries of the invocation's results for engine e made in iteration r.
ProducedIn(e, r) == {j \in 1..Len(produced[e]) : produced[e][j].run = r}

\* C1: every _save_results call leaves each engine's table holding the rows
\* it held before, unchanged and in order, followed by the new rows in the
\* order given (a table that did not exist holds exactly the new rows).
C1_SaveAppendsAfterExistingRows ==
    [][(pc = "pairs" /\ step' \in SaveSteps /\ faults = 0) =>
          \A e \in Range(engines) :
              tables'[e].rows = tables[e].rows \o ToRows(results_by_engine[e])]_vars

\* C2: with missing input files and no other failure, run_benchmarks ends
\* without raising, having recorded no result for a pair whose scenario lacks
\* a file and exactly one result per iteration for every other pair.
C2_MissingInputTolerated ==
    (pc = "done" /\ step # "reject" /\ faults = 0
        /\ \A e \in Range(engines) : KnownEngine(e)) =>
    /\ outcome = "ok"
    /\ \A e \in Range(engines) : \A r \in 1..call.runs :
          /\ \A j \in ProducedIn(e, r) : produced[e][j].result.scenario \in ValidScenarios
          /\ \A sc \in ValidScenarios :
                Cardinality({j \in ProducedIn(e, r) :
                                produced[e][j].result.scenario = sc}) = 1

\* C3: a pair whose engine is none of pandas, pandas-pyarrow, polars ends the
\* invocation with a surfaced error, whatever the state of the input files.
C3_UnknownEngineSurfaces ==
    [][(pc = "pairs" /\ step' \in PairSteps
          /\ CurEng \notin {"pandas", "pandas-pyarrow", "polars"}) =>
          (pc' = "done" /\ outcome' \in {"exit1", "raised"})]_vars

\* C4: each save of k results for an engine makes its table k rows longer, so
\* n saves of the same k results leave the initial count plus n*k rows.
C4_EachSaveAddsItsRows ==
    [][(pc = "pairs" /\ step' \in SaveSteps /\ faults = 0) =>
          \A e \in Range(engines) :
              Len(tables'[e].rows) = Len(tables[e].rows) + Len(results_by_engine[e])]_vars

\* C5: the benchmark command, given a scenario outside {all, small, medium,
\* large, xlarge}, an engine outside {all, pandas, pandas-pyarrow, polars} or
\* no data directory, exits non-zero without entering run_benchmarks, and
\* leaves results/ and every persisted table as they were.
C5_InvalidSelectorsRejected ==
    [][(pc = "idle" /\ nInv' = nInv + 1 /\ call'.via = "cli"
          /\ (\/ call'.scenario \notin {"all", "small", "medium", "large", "xlarge"}
              \/ call'.engine \notin {"all", "pandas", "pandas-pyarrow", "polars"}
              \/ ~dataDir)) =>
          (/\ step' = "reject" /\ pc' = "done" /\ outcome' = "exit1"
           /\ resultsDir' = resultsDir /\ tables' = tables)]_vars

\* A rejected command met tables that earlier runs had filled.
C5_Witness ==
    /\ step = "reject" /\ outcome = "exit1" /\ call.engine = "made-up"
    /\ \E e \in TableNames : Len(tables[e].rows) > 0

\* C6 as stated: a Query Adapter invocation that fails is not recovered: the
\* pair's step ends run_benchmarks with the failure and no further pair or
\* iteration runs.
C6_AnyAdapterFailureAborts ==
    [][(pc = "pairs" /\ step' \in {"pair_fnf", "pair_exc"}) =>
          (/\ pc' = "done" /\ outcome' = Failure(call.via)
           /\ idx' = idx /\ run_num' = run_num)]_vars

\* C6: a Query Adapter invocation that fails with anything but
\* FileNotFoundError is not recovered: the failure leaves run_benchmarks (exit
\* status 1 from the CLI), nothing is saved, and no further pair or iteration
\* runs before the invocation is over.
C6_OtherAdapterFailureAborts ==
    [][/\ (pc = "pairs" /\ step' = "pair_exc") =>
             (/\ pc' = "done" /\ outcome' = Failure(call.via)
              /\ (call.via = "cli" => outcome' = "exit1")
              /\ error' = "Exception"
              /\ idx' = idx /\ run_num' = run_num /\ tables' = tables)
       /\ (pc = "done" /\ Failed) => (pc' = "idle" /\ tables' = tables)]_vars

\* The CLI's run was ended by an adapter failure in its second pair, after a
\* first pair had been measured.
C6_Witness ==
    /\ pc = "done" /\ step = "pair_exc" /\ call.via = "cli" /\ outcome = "exit1"
    /\ idx = 2 /\ idx <= NPairs
    /\ \E e \in Range(engines) : Len(results_by_engine[e]) > 0

\* C7: iterations run one after another; iteration i's working sets are saved
\* after its last pair and before iteration i+1's snapshot; an invocation that
\* returns normally has saved all its iterations, each once, in order.
C7_IterationsSavedInOrder ==
    /\ pc = "pairs" => (saved = run_num - 1 /\ Len(snapLog) = run_num)
    /\ pc = "iter" => (saved = run_num - 1 /\ Len(snapLog) = run_num - 1)
    /\ step = "save" => idx = NPairs + 1
    /\ (pc = "done" /\ outcome = "ok") =>
          /\ saved = call.runs
          /\ \A e \in Range(engines) :
                /\ Len(tables[e].rows) = Len(base[e].rows) + Len(produced[e])
                /\ \A j \in 1..Len(produced[e]) :
                      LET row == tables[e].rows[Len(base[e].rows) + j]
                          res == produced[e][j].result
                      IN /\ row.timestamp = res.system_info.timestamp
                         /\ row.engine = res.engine
                         /\ row.scenario = res.scenario
                /\ \A i, j \in 1..Len(produced[e]) :
                      i < j => produced[e][i].run <= produced[e][j].run

\* A two-iteration invocation returned normally with results from both
\* iterations on top of rows an earlier invocation had saved.
C7_Witness ==
    /\ pc = "done" /\ outcome = "ok" /\ call.runs >= 2
    /\ \E e \in Range(engines) :
          /\ Len(base[e].rows) > 0
          /\ ProducedIn(e, 1) # {} /\ ProducedIn(e, 2) # {}

\* C8: each iteration takes one snapshot, before its pairs; every result of
\* the iteration carries that snapshot and none a snapshot of another
\* iteration.
C8_OneSnapshotPerIteration ==
    /\ pc = "pairs" =>
          /\ Len(snapLog) = run_num /\ system_info = snapLog[run_num]
          /\ \A e \in DOMAIN results_by_engine : \A i \in 1..Len(results_by_engine[e]) :
                results_by_engine[e][i].system_info = system_info
    /\ \A i, j \in 1..Len(snapLog) : i # j => snapLog[i] # snapLog[j]
    /\ \A e \in DOMAIN produced : \A j \in 1..Len(produced[e]) :
          /\ produced[e][j].run \in 1..Len(snapLog)
          /\ produced[e][j].result.system_info = snapLog[produced[e][j].run]

\* The second iteration of an invocation is under way, with results of both
\* iterations recorded for one engine.
C8_Witness ==
    /\ pc = "pairs" /\ run_num = 2
    /\ \E e \in DOMAIN produced : ProducedIn(e, 1) # {} /\ ProducedIn(e, 2) # {}
    /\ \E e \in DOMAIN results_by_engine : Len(results_by_engine[e]) > 0

\* C9: memory tracking is active only inside _measure_execution: whenever
\* the process is outside it (every state here, a pair being one step),
\* tracemalloc is not tracing.
C9_TrackingStoppedOutsideMeasurement ==
    ~tracing

\* C10: when run_benchmarks aborts in iteration k, each table holds what it
\* held at entry plus the results of iterations 1..k-1, and none of
\* iteration k's.
C10_AbortedIterationNotPersisted ==
    (pc = "done" /\ Failed /\ step # "reject" /\ faults = 0) =>
        \A e \in Range(engines) :
            Len(tables[e].rows) =
                Len(base[e].rows)
                + Cardinality({j \in 1..Len(produced[e]) : produced[e][j].run < run_num})

====
